---- MODULE Spec2Model ----
(***************************************************************************)
(* Model of BITS/utils.py: interval_len and subtract_interval, which work  *)
(* on pyinterval `interval` objects.  An interval object is a tuple of     *)
(* components (inf, sup); it is modelled as a sequence of records          *)
(* [lo, hi], kept sorted and merged by the library's union.                *)
(* subtract_interval is modelled statement by statement: one action per    *)
(* branch of the scan loop (lines 124-158), the flush (159-161), the       *)
(* remaining-A loop (162-164) and the length filter (166-171).             *)
(***************************************************************************)
EXTENDS Integers, Sequences, FiniteSets

\* Coordinates of the inputs are drawn from 1..MaxCoord.
MaxCoord == 5
\* length_threshold is drawn from -1..MaxThreshold.
MaxThreshold == 3

VARIABLES
    pc,                      \* position in the called function
    a_interval,              \* argument A
    b_interval,              \* argument B
    length_threshold,        \* argument length_threshold
    intersection,            \* line 119
    a_index,                 \* line 120 (0-based, as in the source)
    i_index,                 \* line 121 (0-based, as in the source)
    flag_load_new_interval,  \* line 123
    a_intvl,                 \* the working range of the scan
    ret_interval,            \* line 118
    ret_interval_long,       \* line 166
    err,                     \* the exception raised, "none" if none
    len_ret                  \* value returned by a call of interval_len

vars == <<pc, a_interval, b_interval, length_threshold, intersection, a_index,
          i_index, flag_load_new_interval, a_intvl, ret_interval,
          ret_interval_long, err, len_ret>>

Coords == 1..MaxCoord
Thresholds == (-1)..MaxThreshold

Min(x, y) == IF x <= y THEN x ELSE y
Max(x, y) == IF x >= y THEN x ELSE y

----------------------------------------------------------------------------
(* Inputs: every normalized interval object over Coords.                   *)

Starts(S) == {x \in S : (x - 1) \notin S}
EndOf(S, s) == CHOOSE e \in S : e >= s /\ (\A y \in s..e : y \in S) /\ (e + 1) \notin S

RECURSIVE RunsFrom(_, _)
RunsFrom(S, starts) ==
    IF starts = {} THEN <<>>
    ELSE LET s == CHOOSE x \in starts : \A y \in starts : x <= y
         IN <<[lo |-> s, hi |-> EndOf(S, s)]>> \o RunsFrom(S, starts \ {s})

\* The interval object whose covered integer points are exactly S.
Runs(S) == RunsFrom(S, Starts(S))

NormalizedSets == {Runs(S) : S \in SUBSET Coords}

----------------------------------------------------------------------------
(* pyinterval operations used by the source.                               *)

\* interval[x, y]: the hull of the two points, one component.
Hull(x, y) == [lo |-> Min(x, y), hi |-> Max(x, y)]

RECURSIVE InsertByInf(_, _)
InsertByInf(L, c) ==
    IF L = <<>> THEN <<c>>
    ELSE IF c.lo < Head(L).lo THEN <<c>> \o L
    ELSE <<Head(L)>> \o InsertByInf(Tail(L), c)

RECURSIVE SortByInf(_)
SortByInf(L) == IF L = <<>> THEN <<>> ELSE InsertByInf(SortByInf(Tail(L)), Head(L))

RECURSIVE MergeSorted(_, _)
MergeSorted(acc, L) ==
    IF L = <<>> THEN acc
    ELSE LET c == Head(L) IN
         IF acc # <<>> /\ c.lo <= acc[Len(acc)].hi
         THEN MergeSorted(SubSeq(acc, 1, Len(acc) - 1)
                            \o <<[lo |-> acc[Len(acc)].lo,
                                  hi |-> Max(acc[Len(acc)].hi, c.hi)]>>, Tail(L))
         ELSE MergeSorted(Append(acc, c), Tail(L))

\* x | y: components sorted by inf, real-overlapping components merged.
Union(S, T) == MergeSorted(<<>>, SortByInf(S \o T))

RECURSIVE Pairwise(_, _, _)
Pairwise(A, B, k) ==
    IF k > Len(A) * Len(B) THEN <<>>
    ELSE LET x == A[((k - 1) \div Len(B)) + 1]
             y == B[((k - 1) % Len(B)) + 1]
         IN (IF x.lo <= y.hi /\ y.lo <= x.hi
             THEN <<[lo |-> Max(x.lo, y.lo), hi |-> Min(x.hi, y.hi)]>>
             ELSE <<>>) \o Pairwise(A, B, k + 1)

\* x & y: the pairwise overlaps of the components.
Intersect(A, B) == Union(Pairwise(A, B, 1), <<>>)

----------------------------------------------------------------------------
(* interval_len, lines 99-108.                                             *)

RECURSIVE interval_len_no_plus_one(_)
interval_len_no_plus_one(intvls) ==
    IF intvls = <<>> THEN 0
    ELSE (Head(intvls).hi - Head(intvls).lo) + interval_len_no_plus_one(Tail(intvls))

RECURSIVE interval_len(_)
interval_len(intvls) ==
    IF intvls = <<>> THEN 0
    ELSE (Head(intvls).hi - Head(intvls).lo + 1) + interval_len(Tail(intvls))

----------------------------------------------------------------------------
(* subtract_interval, lines 111-171.                                       *)

\* The working range before its first assignment.
Unbound == [kind |-> "unbound", lo |-> 0, hi |-> 0]

\* a_interval[a_index]: a Component, a pair (inf, sup).
Component(c) == [kind |-> "component", lo |-> c.lo, hi |-> c.hi]

ShrunkAsComponent(i_end, a_end) ==
    [kind |-> "component", lo |-> i_end + 1, hi |-> a_end]
ShrunkFromIEnd(i_end, a_end) ==
    [kind |-> "interval", lo |-> Hull(i_end, a_end).lo, hi |-> Hull(i_end, a_end).hi]
ShrunkPastAEnd(i_end, a_end) ==
    [kind |-> "interval", lo |-> i_end + 1, hi |-> a_end + 1]

\* interval[i_end + 1, a_end] (lines 147, 156): an interval object holding
\* one component, not a Component.
Shrunk(i_end, a_end) ==
    [kind |-> "interval", lo |-> Hull(i_end + 1, a_end).lo,
                          hi |-> Hull(i_end + 1, a_end).hi]

PrefixUpToIStart(a_start, i_start) == <<Hull(a_start, i_start)>>

\* interval[a_start, i_start - 1] (lines 152, 155).
Prefix(a_start, i_start) == <<Hull(a_start, i_start - 1)>>

\* interval(a_intvl) (lines 131, 160): a Component is unpacked to a hull,
\* an interval object is returned as it is.
AsInterval(w) == <<Hull(w.lo, w.hi)>>

start_contained_strict(a_start, i_start) == i_start < a_start

\* line 138
start_contained(a_start, i_start) == Min(a_start, i_start) = i_start
\* line 139
end_contained(a_end, i_end) == Max(a_end, i_end) = i_end

KeepStrict(intvl, threshold) == interval_len(<<intvl>>) > threshold
KeepReversed(intvl, threshold) == interval_len(<<intvl>>) <= threshold

\* line 168
Keep(intvl, threshold) == interval_len(<<intvl>>) >= threshold

RECURSIVE FilterLong(_, _, _)
\* lines 166-169
FilterLong(acc, comps, threshold) ==
    IF comps = <<>> THEN acc
    ELSE FilterLong(IF Keep(Head(comps), threshold)
                    THEN Union(acc, <<Head(comps)>>) ELSE acc,
                    Tail(comps), threshold)

\* while-condition of line 124
ScanGuard == a_index < Len(a_interval) /\ i_index < Len(intersection)

\* lines 125-128: the working range of this iteration
Working == IF flag_load_new_interval THEN Component(a_interval[a_index + 1])
           ELSE a_intvl

CurI == intersection[i_index + 1]

args == <<a_interval, b_interval, length_threshold, intersection>>

Init ==
    /\ a_interval \in NormalizedSets
    /\ \/ /\ pc = "scan"
          /\ b_interval \in NormalizedSets
          /\ length_threshold \in Thresholds
       \/ /\ pc = "len"
          /\ b_interval = <<>>
          /\ length_threshold = 0
    /\ intersection = Intersect(a_interval, b_interval)
    /\ a_index = 0
    /\ i_index = 0
    /\ flag_load_new_interval = TRUE
    /\ a_intvl = Unbound
    /\ ret_interval = <<>>
    /\ ret_interval_long = <<>>
    /\ err = "none"
    /\ len_ret = -1

\* line 130 evaluated on an interval object of one component: a_intvl[1]
\* is out of range.
ScanIndexError ==
    /\ pc = "scan" /\ ScanGuard
    /\ Working.kind = "interval"
    /\ pc' = "error"
    /\ err' = "IndexError"
    /\ UNCHANGED <<args, a_index, i_index, flag_load_new_interval, a_intvl,
                   ret_interval, ret_interval_long, len_ret>>

\* lines 130-132
ScanEmitWhole ==
    /\ pc = "scan" /\ ScanGuard
    /\ Working.kind = "component"
    /\ Working.hi < CurI.lo
    /\ a_intvl' = Working
    /\ ret_interval' = Union(ret_interval, AsInterval(Working))
    /\ a_index' = a_index + 1
    /\ UNCHANGED <<args, pc, i_index, flag_load_new_interval,
                   ret_interval_long, err, len_ret>>

\* lines 133-134
ScanSkipI ==
    /\ pc = "scan" /\ ScanGuard
    /\ Working.kind = "component"
    /\ ~(Working.hi < CurI.lo)
    /\ Working.lo > CurI.hi
    /\ a_intvl' = Working
    /\ i_index' = i_index + 1
    /\ UNCHANGED <<args, pc, a_index, flag_load_new_interval, ret_interval,
                   ret_interval_long, err, len_ret>>

Overlapping ==
    /\ pc = "scan" /\ ScanGuard
    /\ Working.kind = "component"
    /\ ~(Working.hi < CurI.lo)
    /\ ~(Working.lo > CurI.hi)

\* lines 140-143
ScanBothContained ==
    /\ Overlapping
    /\ start_contained(Working.lo, CurI.lo)
    /\ end_contained(Working.hi, CurI.hi)
    /\ a_intvl' = Working
    /\ a_index' = a_index + 1
    /\ i_index' = i_index + 1
    /\ UNCHANGED <<args, pc, flag_load_new_interval, ret_interval,
                   ret_interval_long, err, len_ret>>

\* lines 144-149
ScanStartContained ==
    /\ Overlapping
    /\ start_contained(Working.lo, CurI.lo)
    /\ ~end_contained(Working.hi, CurI.hi)
    /\ a_intvl' = Shrunk(CurI.hi, Working.hi)
    /\ flag_load_new_interval' = FALSE
    /\ i_index' = i_index + 1
    /\ UNCHANGED <<args, pc, a_index, ret_interval, ret_interval_long, err,
                   len_ret>>

\* lines 151-153
ScanEndContained ==
    /\ Overlapping
    /\ ~start_contained(Working.lo, CurI.lo)
    /\ end_contained(Working.hi, CurI.hi)
    /\ a_intvl' = Working
    /\ ret_interval' = Union(ret_interval, Prefix(Working.lo, CurI.lo))
    /\ a_index' = a_index + 1
    /\ UNCHANGED <<args, pc, i_index, flag_load_new_interval,
                   ret_interval_long, err, len_ret>>

\* lines 154-158
ScanNeitherContained ==
    /\ Overlapping
    /\ ~start_contained(Working.lo, CurI.lo)
    /\ ~end_contained(Working.hi, CurI.hi)
    /\ ret_interval' = Union(ret_interval, Prefix(Working.lo, CurI.lo))
    /\ a_intvl' = Shrunk(CurI.hi, Working.hi)
    /\ flag_load_new_interval' = FALSE
    /\ i_index' = i_index + 1
    /\ UNCHANGED <<args, pc, a_index, ret_interval_long, err, len_ret>>

\* line 124, condition false
ScanExit ==
    /\ pc = "scan" /\ ~ScanGuard
    /\ pc' = "flush"
    /\ UNCHANGED <<args, a_index, i_index, flag_load_new_interval, a_intvl,
                   ret_interval, ret_interval_long, err, len_ret>>

\* lines 159-161
Flush ==
    /\ pc = "flush"
    /\ IF ~flag_load_new_interval
       THEN /\ ret_interval' = Union(ret_interval, AsInterval(a_intvl))
            /\ a_index' = a_index + 1
       ELSE UNCHANGED <<ret_interval, a_index>>
    /\ pc' = "rest"
    /\ UNCHANGED <<args, i_index, flag_load_new_interval, a_intvl,
                   ret_interval_long, err, len_ret>>

\* lines 162-164
RestEmit ==
    /\ pc = "rest" /\ a_index < Len(a_interval)
    /\ ret_interval' = Union(ret_interval,
                             AsInterval(Component(a_interval[a_index + 1])))
    /\ a_index' = a_index + 1
    /\ UNCHANGED <<args, pc, i_index, flag_load_new_interval, a_intvl,
                   ret_interval_long, err, len_ret>>

\* line 162, condition false
RestExit ==
    /\ pc = "rest" /\ ~(a_index < Len(a_interval))
    /\ pc' = "filter"
    /\ UNCHANGED <<args, a_index, i_index, flag_load_new_interval, a_intvl,
                   ret_interval, ret_interval_long, err, len_ret>>

\* lines 166-171
Filter ==
    /\ pc = "filter"
    /\ ret_interval_long' = FilterLong(<<>>, ret_interval, length_threshold)
    /\ pc' = "done"
    /\ UNCHANGED <<args, a_index, i_index, flag_load_new_interval, a_intvl,
                   ret_interval, err, len_ret>>

\* a call interval_len(a_interval), lines 99-108
LenCall ==
    /\ pc = "len"
    /\ len_ret' = interval_len(a_interval)
    /\ pc' = "len_done"
    /\ UNCHANGED <<args, a_index, i_index, flag_load_new_interval, a_intvl,
                   ret_interval, ret_interval_long, err>>

Next ==
    \/ ScanIndexError
    \/ ScanEmitWhole
    \/ ScanSkipI
    \/ ScanBothContained
    \/ ScanStartContained
    \/ ScanEndContained
    \/ ScanNeitherContained
    \/ ScanExit
    \/ Flush
    \/ RestEmit
    \/ RestExit
    \/ Filter
    \/ LenCall

Spec == Init /\ [][Next]_vars

----------------------------------------------------------------------------
(* Properties.                                                             *)

\* Integers around the inputs' coordinates (outputs may not leave Coords,
\* which is part of what is checked).
Universe == 0..(MaxCoord + 2)

Covered(S, x) == \E i \in DOMAIN S : S[i].lo <= x /\ x <= S[i].hi
RangeLen(c) == c.hi - c.lo + 1
Ranges(S) == {S[i] : i \in DOMAIN S}
InSubtract == pc \in {"scan", "flush", "rest", "filter", "done", "error"}

\* The IntervalSet invariant: start <= end, ascending, no overlap, no adjacency.
IsNormalized(S) ==
    /\ \A i \in DOMAIN S : S[i].lo <= S[i].hi
    /\ \A i \in DOMAIN S : i > 1 => S[i].lo > S[i - 1].hi + 1

\* What the caller gets: the returned interval object, nothing on an exception.
Returned == IF pc = "done" THEN ret_interval_long ELSE <<>>

\* C1: with length_threshold = 0, once the call has ended, an integer x is
\* covered by the result if and only if it is covered by A and not by B.
C1_SubtractionExact ==
    (length_threshold = 0 /\ pc \in {"done", "error"}) =>
        \A x \in Universe :
            Covered(Returned, x) <=> (Covered(a_interval, x) /\ ~Covered(b_interval, x))

C3_ResultWithinA ==
    (InSubtract /\ length_threshold >= 0) =>
        \A c \in Ranges(ret_interval) \cup Ranges(ret_interval_long) :
            \E a \in Ranges(a_interval) : a.lo <= c.lo /\ c.hi <= a.hi

\* C3 witness: a filtered result that holds a flushed shrunk tail and a prefix.
C3_Witness ==
    /\ pc = "done" /\ length_threshold > 0
    /\ ~flag_load_new_interval
    /\ Len(ret_interval_long) >= 2
    /\ \E c \in Ranges(ret_interval_long) : c.lo = a_intvl.lo /\ c.hi = a_intvl.hi

\* C4: subtract_interval(A, A, 0) raises nothing, runs to its return, and
\* returns the empty interval object, whose interval_len is 0.
C4_SelfSubtractionEmpty ==
    (InSubtract /\ b_interval = a_interval /\ length_threshold = 0) =>
        /\ pc # "error"
        /\ (pc = "done" \/ ENABLED Next)
        /\ ret_interval = <<>>
        /\ pc = "done" => (ret_interval_long = <<>> /\ interval_len(ret_interval_long) = 0)

\* C4 witness: the call returned for an A of several ranges.
C4_Witness ==
    /\ pc = "done" /\ b_interval = a_interval /\ length_threshold = 0
    /\ Len(a_interval) >= 2

\* C5: for length_threshold m >= 0 the result is exactly the ranges of the
\* unfiltered difference of length >= m, unchanged and in order; m = 0 keeps all.
C5_FilterKeepsLong ==
    (pc = "done" /\ length_threshold >= 0) =>
        /\ Ranges(ret_interval_long) =
               {c \in Ranges(ret_interval) : RangeLen(c) >= length_threshold}
        /\ Len(ret_interval_long) = Cardinality(Ranges(ret_interval_long))
        /\ \A i \in DOMAIN ret_interval_long :
               i > 1 => ret_interval_long[i - 1].lo < ret_interval_long[i].lo
        /\ length_threshold = 0 => ret_interval_long = ret_interval

\* C5 witness: one range dropped and one range of length exactly m kept.
C5_Witness ==
    /\ pc = "done" /\ length_threshold > 0
    /\ \E c \in Ranges(ret_interval) : RangeLen(c) < length_threshold
    /\ \E c \in Ranges(ret_interval_long) : RangeLen(c) = length_threshold

\* C6 (as claimed): a call with a negative length_threshold never returns an
\* interval set.
C6_NegativeThresholdFails ==
    (InSubtract /\ length_threshold < 0) => pc # "done"

\* C6 (amended): a negative length_threshold is not rejected: no
\* InvalidArgument is raised, and a call that returns returns the unfiltered
\* difference.
C6_NegativeThresholdKeepsAll ==
    (InSubtract /\ length_threshold < 0) =>
        /\ err # "InvalidArgument"
        /\ pc = "done" => ret_interval_long = ret_interval

\* C6 witness: a call with a negative threshold returned a non-empty set.
C6_Witness ==
    pc = "done" /\ length_threshold < 0 /\ Len(ret_interval_long) >= 2

\* C7: for every length_threshold >= 0 the returned interval object is sorted
\* ascending, each range has start <= end, and consecutive ranges neither
\* overlap nor touch.
C7_OutputNormalized ==
    (pc = "done" /\ length_threshold >= 0) => IsNormalized(ret_interval_long)

\* C7 witness: a result of two fragments cut from one A-range by one point of B.
C7_Witness ==
    /\ pc = "done" /\ length_threshold >= 0
    /\ \E i \in DOMAIN ret_interval_long :
           /\ i > 1
           /\ ret_interval_long[i].lo = ret_interval_long[i - 1].hi + 2
           /\ \E a \in Ranges(a_interval) :
                  a.lo <= ret_interval_long[i - 1].lo /\ ret_interval_long[i].hi <= a.hi

\* C8: on normalized inputs and length_threshold >= 0 the call raises no
\* internal error.
C8_NoInternalError ==
    (InSubtract /\ length_threshold >= 0) => pc # "error"

\* C9: interval_len(S) is the sum over the ranges of S of end - start + 1
\* (the number of pairs (range, point of the range)), is >= 0, and is 0 for
\* the empty interval object.
C9_LengthIsSum ==
    pc = "len_done" =>
        /\ len_ret = Cardinality({p \in (DOMAIN a_interval) \X Universe :
                                     a_interval[p[1]].lo <= p[2]
                                     /\ p[2] <= a_interval[p[1]].hi})
        /\ len_ret >= 0
        /\ a_interval = <<>> => len_ret = 0

\* C9 witness: the length of a set of several ranges, one of them a point.
C9_Witness ==
    /\ pc = "len_done" /\ Len(a_interval) >= 2 /\ len_ret >= 3
    /\ \E c \in Ranges(a_interval) : c.lo = c.hi

\* C10: a scan step that advances the A pointer leaves the scan in the state
\* that loads the full A-range at the new position; while a shrunk remainder
\* is the working range (in the scan or at the flush), the A pointer is at the
\* A-range that remainder was cut from.
C10_FreshAfterAdvance ==
    [][/\ (pc = "scan" /\ a_index' # a_index) => flag_load_new_interval'
       /\ (pc' \in {"scan", "flush"} /\ ~flag_load_new_interval') =>
              /\ a_index' < Len(a_interval)
              /\ a_intvl'.hi = a_interval[a_index' + 1].hi
              /\ a_intvl'.lo > a_interval[a_index' + 1].lo
              /\ a_intvl'.lo <= a_intvl'.hi]_vars

\* C10 witness: the A pointer advanced during the scan, a later A-range was
\* cut, and its remainder was flushed.
C10_Witness ==
    /\ pc = "rest" /\ ~flag_load_new_interval
    /\ a_index >= 2
    /\ a_intvl.hi = a_interval[a_index].hi
    /\ Covered(ret_interval, a_intvl.lo)

====
